---- MODULE Spec2Model ----
(***************************************************************************)
(* Model of main.py (crypto signal bot): the trade ledger trade_history,   *)
(* the file TRADE_FILE, and the functions that run on the program's        *)
(* threads: generate_and_send_signal (one thread per asset),               *)
(* check_trades (scheduled job) and daily_report (scheduled job).          *)
(*                                                                         *)
(* Prices are integers (ticks).  The daily candles are multiples of 6, so  *)
(* the divisions by 3.0 and 2.0 of calculate_cpr_levels are exact.         *)
(* pnl_percent is the exact fraction num/den, den > 0 (float rounding is   *)
(* not modelled).  Prices are positive, as exchange prices are.            *)
(*                                                                         *)
(* A thread is idle or at a label of the function it runs; one step is     *)
(* the code between two accesses to shared state or blocking calls.        *)
(* In Spec the threads run one function at a time; in SpecConc they        *)
(* interleave (the program takes no lock); SpecSignal runs                 *)
(* generate_and_send_signal alone on a wider set of inputs; SpecReport     *)
(* runs daily_report alone with a clock; SpecLive runs the check_trades    *)
(* job pass after pass, with weak fairness.                                *)
(*                                                                         *)
(* Left out: bot_stats and the Flask routes (they never write the ledger), *)
(* the text of the messages, an I/O error inside save_history (caught and  *)
(* printed at lines 67-68).  Time passes in SpecReport only; elsewhere     *)
(* now stays at the start time, so every timestamp equals it.              *)
(***************************************************************************)
EXTENDS Integers, Sequences, FiniteSets, TLC

\* ------------------------------------------------------------ bounds
\* The longest ledger explored by Spec and SpecConc.
MaxTrades == 2

\* The longest ledger explored by SpecSignal.
MaxSignalTrades == 2

\* How often each thread runs its function in SpecConc.
MaxRuns == 1

\* How many threads run at the same time in SpecConc.
MaxParallel == 2

\* The longest ledger explored by SpecReport.
MaxReportTrades == 2

\* How many seconds pass in SpecReport.
MaxTicks == 2

\* ------------------------------------------------------------ configuration
\* CRYPTOS, read once from the environment (two assets configured).
CRYPTOS == {"BTC/USDT", "ETH/USDT"}

\* fetch_data_safe: max_retries.
max_retries == 3

\* The threads: one generate_and_send_signal thread per asset (the startup
\* thread, then the asset's scheduled job), the check_trades job and the
\* daily_report job.
SignalThreads == CRYPTOS
CheckThreads == {"check_trades", "daily_report"}
Threads == SignalThreads \cup CheckThreads

\* ------------------------------------------------------------ market data
\* Closing prices the exchange may report.
Prices == {60, 106, 121}

\* Daily candles (high, low, close), low <= close <= high.
Candle(h, l, c) == [high |-> h, low |-> l, close |-> c]
CandleA == Candle(120, 60, 90)
CandleB == Candle(120, 60, 60)
CandleC == Candle(120, 60, 120)
CandleFlat == Candle(90, 90, 90)
CandleForming == Candle(180, 30, 150)

\* (sma9, sma20) on the latest bar: above, tie, below.
SmaPairs == {<<2, 1>>, <<1, 1>>, <<1, 2>>}

\* A DataFrame after dropna(), reduced to its last row; empty when the
\* fetch failed or fewer than 20 bars remained.
EmptyFrame == [empty |-> TRUE, close |-> 0, sma9 |-> 0, sma20 |-> 0]
Frame(p, s) == [empty |-> FALSE, close |-> p, sma9 |-> s[1], sma20 |-> s[2]]
Frames(P, S) == {Frame(p, s) : p \in P, s \in S} \cup {EmptyFrame}

\* One attempt of fetch_data_safe: the frame it built, or an exception.
FailedAttempt == [ok |-> FALSE, df |-> EmptyFrame]
Attempt(f) == [ok |-> TRUE, df |-> f]

\* The outcomes of the max_retries attempts: k failures, then successes.
AttemptSeq(k, f) ==
  [j \in 1..max_retries |-> IF j <= k THEN FailedAttempt ELSE Attempt(f)]
AttemptSeqs(F) == {AttemptSeq(k, f) : k \in 0..max_retries, f \in F}
\* Every attempt succeeds at once.
Reliable(F) == {AttemptSeq(0, f) : f \in F}

\* The daily fetch of generate_and_send_signal: the candles, or an exception.
DailyError == [error |-> TRUE, rows |-> <<>>]
Daily(rows) == [error |-> FALSE, rows |-> rows]

\* Inputs of the ledger specifications (Spec, SpecConc): a bullish market
\* at 121, a bearish one at 80, or no data.
Frames4h == {Frame(121, <<2, 1>>), Frame(80, <<1, 2>>), EmptyFrame}
Frames1h == {Frame(106, <<2, 1>>), Frame(106, <<1, 2>>)}
Dailies == {Daily(<<CandleA, CandleForming>>)}
Attempts4h == AttemptSeqs(Frames4h)
Attempts1h == AttemptSeqs(Frames1h)

\* Inputs of the signal specification (SpecSignal): every trend
\* combination, several candles, short and failing daily series.
AllFrames4h == Frames({80, 90, 121}, SmaPairs)
AllFrames1h == Frames({106}, SmaPairs)
AllAttempts4h == AttemptSeqs(AllFrames4h)
AllAttempts1h == AttemptSeqs(AllFrames1h)
AllDailies ==
  {DailyError, Daily(<<>>)}
    \cup {Daily(<<c>>) : c \in {CandleA, CandleForming}}
    \cup {Daily(<<c, CandleForming>>) :
             c \in {CandleA, CandleB, CandleC, CandleFlat}}
    \cup {Daily(<<CandleForming, CandleB, CandleA>>)}

\* ------------------------------------------------------------ pure functions
\* calculate_cpr_levels(df_daily)
NoCpr ==
  [none |-> TRUE, PP |-> 0, TC |-> 0, BC |-> 0,
   R1 |-> 0, S1 |-> 0, R2 |-> 0, S2 |-> 0]

\* Variant: the levels come from the last candle, the one still forming.
CprOfLastCandle(df_daily) ==
  IF Len(df_daily) < 2 THEN NoCpr
  ELSE LET H == df_daily[Len(df_daily)].high
           L == df_daily[Len(df_daily)].low
           C == df_daily[Len(df_daily)].close
           PP == (H + L + C) \div 3
           BC == (H + L) \div 2
           TC == PP - BC + PP
       IN [none |-> FALSE, PP |-> PP, TC |-> TC, BC |-> BC,
           R1 |-> 2 * PP - L, S1 |-> 2 * PP - H,
           R2 |-> PP + (H - L), S2 |-> PP - (H - L)]

calculate_cpr_levels(df_daily) ==
  IF Len(df_daily) < 2 THEN NoCpr
  ELSE LET prev_day == df_daily[Len(df_daily) - 1]
           H == prev_day.high
           L == prev_day.low
           C == prev_day.close
           PP == (H + L + C) \div 3
           BC == (H + L) \div 2
           TC == PP - BC + PP
       IN [none |-> FALSE, PP |-> PP, TC |-> TC, BC |-> BC,
           R1 |-> 2 * PP - L, S1 |-> 2 * PP - H,
           R2 |-> PP + (H - L), S2 |-> PP - (H - L)]

\* fetch_data_safe(symbol, timeframe): the frame of the first attempt that
\* does not raise, an empty frame after max_retries failures.
RECURSIVE FetchFrom(_, _)
FetchFrom(attempts, attempt) ==
  IF attempt > max_retries THEN EmptyFrame
  ELSE IF attempts[attempt].ok THEN attempts[attempt].df
  ELSE FetchFrom(attempts, attempt + 1)

fetch_data_safe(attempts) == FetchFrom(attempts, 1)

\* fetch_data_safe: how many times the loop body ran before the return.
RECURSIVE AttemptsFrom(_, _)
AttemptsFrom(attempts, attempt) ==
  IF attempt > max_retries THEN 0
  ELSE IF attempts[attempt].ok THEN 1
  ELSE 1 + AttemptsFrom(attempts, attempt + 1)

AttemptsUsed(attempts) == AttemptsFrom(attempts, 1)

\* fetch_data_safe left its loop at line 104: every attempt raised.
Exhausted(attempts) == \A j \in 1..max_retries : ~attempts[j].ok

\* generate_and_send_signal, lines 219-225: the fetch attempts made for the
\* asset after a fetch_data_safe call for it was exhausted (a4: the 4h
\* attempts, a1: the 1h attempts, then the one daily fetch).
LateAttempts(a4, a1) ==
  IF Exhausted(a4) THEN AttemptsUsed(a1) + 1
  ELSE IF Exhausted(a1) THEN 1
  ELSE 0

Min(a, b) == IF a <= b THEN a ELSE b
Max(a, b) == IF a >= b THEN a ELSE b

\* Variant: a tie counts as BULLISH.
TrendTieBullish(df) == IF df.sma9 >= df.sma20 THEN "BULLISH" ELSE "BEARISH"

\* "BULLISH" if sma9 > sma20 else "BEARISH"
Trend(df) == IF df.sma9 > df.sma20 THEN "BULLISH" ELSE "BEARISH"

\* The master signal logic of generate_and_send_signal.
MasterSignal(trend_4h, trend_1h, price, cpr) ==
  IF trend_4h = "BULLISH" /\ trend_1h = "BULLISH" /\ price > cpr.PP
    THEN "STRONG BUY"
  ELSE IF trend_4h = "BEARISH" /\ trend_1h = "BEARISH" /\ price < cpr.PP
    THEN "STRONG SELL"
  ELSE "WAIT (Neutral)"

\* "BUY" in signal
IsBuy(signal) == signal = "STRONG BUY"
IsDirectional(signal) == signal \in {"STRONG BUY", "STRONG SELL"}

\* Risk/reward of a directional signal.
TakeProfit1(is_buy, cpr) == IF is_buy THEN cpr.R1 ELSE cpr.S1
TakeProfit2(is_buy, cpr) == IF is_buy THEN cpr.R2 ELSE cpr.S2
\* Variant: min and max are swapped.
StopLossSwapped(is_buy, cpr) ==
  IF is_buy THEN Max(cpr.BC, cpr.TC) ELSE Min(cpr.BC, cpr.TC)

\* Variant: the stop is always BC.
StopLossBC(is_buy, cpr) == cpr.BC

StopLoss(is_buy, cpr) ==
  IF is_buy THEN Min(cpr.BC, cpr.TC) ELSE Max(cpr.BC, cpr.TC)

\* pnl_percent as an exact fraction.
Pnl(n, d) == [num |-> n, den |-> d]
ZeroPnl == Pnl(0, 1)

\* The record record_trade builds.
NewTrade(id, symbol, signal, entry, tp1, tp2, sl, timestamp) ==
  [id |-> id, symbol |-> symbol, signal |-> signal, entry |-> entry,
   tp1 |-> tp1, tp2 |-> tp2, sl |-> sl, timestamp |-> timestamp,
   status |-> "ACTIVE", outcome |-> "None", pnl_percent |-> ZeroPnl]

NoTrade == NewTrade(0, "", "", 0, 0, 0, 0, [date |-> 0, time |-> 0])

\* Variant: the stop is never tested.
NewStatusNoStop(trade, current_price) ==
  IF trade.signal = "STRONG BUY"
    THEN IF current_price >= trade.tp2 THEN "TP2_HIT"
         ELSE IF current_price >= trade.tp1 THEN "TP1_HIT"
         ELSE "None"
    ELSE IF current_price <= trade.tp2 THEN "TP2_HIT"
         ELSE IF current_price <= trade.tp1 THEN "TP1_HIT"
         ELSE "None"

\* Variant: a price that reaches no target counts as a stop.
NewStatusNoHold(trade, current_price) ==
  IF trade.signal = "STRONG BUY"
    THEN IF current_price >= trade.tp2 THEN "TP2_HIT"
         ELSE IF current_price >= trade.tp1 THEN "TP1_HIT"
         ELSE "SL_HIT"
    ELSE IF current_price <= trade.tp2 THEN "TP2_HIT"
         ELSE IF current_price <= trade.tp1 THEN "TP1_HIT"
         ELSE "SL_HIT"

\* Variant: tp1 is tested before tp2.
NewStatusTp1First(trade, current_price) ==
  IF trade.signal = "STRONG BUY"
    THEN IF current_price >= trade.tp1 THEN "TP1_HIT"
         ELSE IF current_price >= trade.tp2 THEN "TP2_HIT"
         ELSE IF current_price <= trade.sl THEN "SL_HIT"
         ELSE "None"
    ELSE IF current_price <= trade.tp1 THEN "TP1_HIT"
         ELSE IF current_price <= trade.tp2 THEN "TP2_HIT"
         ELSE IF current_price >= trade.sl THEN "SL_HIT"
         ELSE "None"

\* check_trades: the win/loss logic; "None" when no threshold is crossed.
NewStatus(trade, current_price) ==
  IF IsBuy(trade.signal)
    THEN IF current_price >= trade.tp2 THEN "TP2_HIT"
         ELSE IF current_price >= trade.tp1 THEN "TP1_HIT"
         ELSE IF current_price <= trade.sl THEN "SL_HIT"
         ELSE "None"
    ELSE IF current_price <= trade.tp2 THEN "TP2_HIT"
         ELSE IF current_price <= trade.tp1 THEN "TP1_HIT"
         ELSE IF current_price >= trade.sl THEN "SL_HIT"
         ELSE "None"

\* Variant: every resolution is stored as a WIN.
OutcomeWin(new_status) == "WIN"

\* The outcome stored with a status.
OutcomeOf(new_status) ==
  IF new_status \in {"TP2_HIT", "TP1_HIT"} THEN "WIN"
  ELSE IF new_status = "SL_HIT" THEN "LOSS"
  ELSE "None"

\* Variant: the SELL result is not negated.
PnlPercentUnsigned(trade, current_price) ==
  Pnl((current_price - trade.entry) * 100, trade.entry)

\* check_trades: % gain/loss, negated for a SELL.
PnlPercent(trade, current_price) ==
  LET diff == (current_price - trade.entry) * 100
  IN Pnl(IF IsBuy(trade.signal) THEN diff ELSE -diff, trade.entry)

\* Variant: every trade is visited, whatever its status.
VisitEvery(trade) == TRUE

\* check_trades visits a trade when its status is ACTIVE.
IsActive(trade) == trade.status = "ACTIVE"

\* Variant: the ledger is saved after every pass.
SaveAlways(updated) == TRUE

\* check_trades: if updated: save_history()
ShouldSave(updated) == updated

\* Variant: an empty frame ends the pass (break).
AbortPass(i, n) == n + 1

\* check_trades: "if df.empty: continue" goes on with the next trade.
SkipTrade(i, n) == i + 1

\* check_trades: "updated = True" runs only after send_message returned.
UpdatedAfterSend(updated, delivered) == IF delivered THEN TRUE ELSE updated

\* daily_report: timedelta(hours=24), in seconds.
Day == 86400

\* datetime.isoformat(): the text "date T time" of a time given in seconds,
\* kept as its two parts; datetime.fromisoformat() reads it back.
isoformat(seconds) == [date |-> seconds \div Day, time |-> seconds % Day]
fromisoformat(text) == text.date * Day + text.time

\* daily_report: sum of pnl_percent, as a fraction.
AddPnl(a, b) == Pnl(a.num * b.den + b.num * a.den, a.den * b.den)

RECURSIVE SumPnl(_)
SumPnl(trades) ==
  IF trades = <<>> THEN ZeroPnl
  ELSE AddPnl(Head(trades).pnl_percent, SumPnl(Tail(trades)))

\* Variant: a trade created exactly 24 hours ago is left out.
RecentStrict(history, clock) ==
  SelectSeq(history, LAMBDA t : fromisoformat(t.timestamp) > clock - Day)

\* daily_report: the trades created in the last 24 hours.
Recent(history, clock) ==
  SelectSeq(history, LAMBDA t : fromisoformat(t.timestamp) >= clock - Day)

Count(trades, outcome) ==
  Len(SelectSeq(trades, LAMBDA t : t.outcome = outcome))

NoReport ==
  [made |-> FALSE, signals |-> 0, wins |-> 0, losses |-> 0, net_pct |-> ZeroPnl]

\* daily_report: the figures of the message.
ReportOf(history, clock) ==
  LET recent == Recent(history, clock)
  IN [made |-> TRUE, signals |-> Len(recent), wins |-> Count(recent, "WIN"),
      losses |-> Count(recent, "LOSS"), net_pct |-> SumPnl(recent)]

\* ------------------------------------------------------------ state
VARIABLES
  trade_history,  \* the ledger: a sequence of trade records
  trade_file,     \* TRADE_FILE: [state, trades]
  pc,             \* where each thread is
  loc,            \* each thread's local variables and what its run did so far
  now,            \* datetime.now(), in seconds
  runs            \* how often each thread started its function (SpecConc)

vars == <<trade_history, trade_file, pc, loc, now, runs>>

\* The file after a complete json.dump of the ledger.
FileOf(history) == [state |-> "written", trades |-> history]
OpenedFile == [state |-> "truncated", trades |-> <<>>]
GarbledFile == [state |-> "garbled", trades |-> <<>>]

\* Ledgers a previous run left in TRADE_FILE (the scenarios of the
\* specification's section 8), besides the empty one.
BuyExample ==
  NewTrade(1, "BTC/USDT", "STRONG BUY", 100, 110, 120, 95, isoformat(0))
SellExample ==
  NewTrade(1, "ETH/USDT", "STRONG SELL", 100, 90, 80, 105, isoformat(0))
InitialLedgers == {<<>>, <<BuyExample>>, <<SellExample>>}

InitLoc ==
  [df_4h |-> EmptyFrame, df_1h |-> EmptyFrame, df_d |-> Daily(<<>>),
   cpr |-> NoCpr, signal |-> "", t |-> NoTrade,
   i |-> 0, current_price |-> 0, new_status |-> "None", updated |-> FALSE,
   ret |-> "idle", now |-> 0, report |-> NoReport,
   \* what the run did so far: the ledger it started from, the trades it
   \* fetched a price for, those whose fetch came back empty, those it
   \* resolved, those whose message was delivered and those whose message
   \* failed, the calls of save_history, append and send_message, the fetch
   \* attempts made for an asset after a fetch_data_safe call for it was
   \* exhausted
   h0 |-> <<>>, fetched |-> {}, failed |-> {}, trans |-> {}, sent |-> {},
   unsent |-> {}, saved |-> FALSE, appended |-> 0, messages |-> 0,
   late |-> 0]

\* start_bot: load_history(), then the scheduler and the threads.
Init ==
  /\ trade_history \in InitialLedgers
  /\ trade_file = FileOf(trade_history)
  /\ pc = [t \in Threads |-> "idle"]
  /\ loc = [t \in Threads |-> InitLoc]
  /\ now = 0
  /\ runs = [t \in Threads |-> 0]

Goto(self, label) == pc' = [pc EXCEPT ![self] = label]
Set(self, r) == loc' = [loc EXCEPT ![self] = r]

Running(T) == {t \in T : pc[t] # "idle"}

\* A function starts on an idle thread.  When serial, only while every
\* other thread is idle; otherwise beside fewer than MaxParallel running
\* threads and at most MaxRuns times per thread.
CanStart(self, serial) ==
  /\ pc[self] = "idle"
  /\ IF serial
       THEN /\ Running(Threads) = {}
            /\ UNCHANGED runs
       ELSE /\ Cardinality(Running(Threads)) < MaxParallel
            /\ runs[self] < MaxRuns
            /\ runs' = [runs EXCEPT ![self] = @ + 1]


\* ------------------------------------------------------------ generate_and_send_signal
\* Lines 219-226: the three fetches and the levels of the daily candles
\* (an exception of the daily fetch leaves cpr unassigned).
GenStart(self, serial, cap, A4, A1, DD) ==
  /\ self \in SignalThreads
  /\ CanStart(self, serial)
  /\ Len(trade_history) + Cardinality(Running(SignalThreads)) < cap
  /\ \E a4 \in A4, a1 \in A1, d \in DD :
       Set(self, [InitLoc EXCEPT !.df_4h = fetch_data_safe(a4),
                                 !.df_1h = fetch_data_safe(a1),
                                 !.df_d = d,
                                 !.cpr = IF d.error THEN NoCpr
                                         ELSE calculate_cpr_levels(d.rows),
                                 !.late = LateAttempts(a4, a1),
                                 !.h0 = trade_history])
  /\ Goto(self, "gs_eval")
  /\ UNCHANGED <<trade_history, trade_file, now>>

\* Lines 228-253 and record_trade's lines 113-125: the decision and the
\* record to append; a missing input, an exception or WAIT returns.
GenEval(self) ==
  /\ pc[self] = "gs_eval"
  /\ LET l == loc[self]
         cpr == l.cpr
         price == l.df_4h.close
         signal == MasterSignal(Trend(l.df_4h), Trend(l.df_1h), price, cpr)
         is_buy == IsBuy(signal)
     IN IF l.df_d.error \/ l.df_4h.empty \/ l.df_1h.empty \/ cpr.none
          THEN /\ Goto(self, "gs_ret")
               /\ UNCHANGED loc
          ELSE IF ~IsDirectional(signal)
            THEN /\ Set(self, [l EXCEPT !.signal = signal])
                 /\ Goto(self, "gs_ret")
            ELSE /\ Set(self, [l EXCEPT !.signal = signal, !.t =
                        NewTrade(Len(trade_history) + 1, self, signal, price,
                                 TakeProfit1(is_buy, cpr),
                                 TakeProfit2(is_buy, cpr),
                                 StopLoss(is_buy, cpr), isoformat(now))])
                 /\ Goto(self, "rt_append")
  /\ UNCHANGED <<trade_history, trade_file, now, runs>>

\* Line 126: trade_history.append(t); line 127 calls save_history.
RecordAppend(self) ==
  /\ pc[self] = "rt_append"
  /\ trade_history' = Append(trade_history, loc[self].t)
  /\ Set(self, [loc[self] EXCEPT !.ret = "gs_send", !.appended = @ + 1])
  /\ Goto(self, "sh_open")
  /\ UNCHANGED <<trade_file, now, runs>>

\* Line 277: the signal message; an exception is caught at line 283.
GenSend(self, Oks) ==
  /\ pc[self] = "gs_send"
  /\ \E ok \in Oks : Set(self, [loc[self] EXCEPT !.messages = @ + 1])
  /\ Goto(self, "gs_ret")
  /\ UNCHANGED <<trade_history, trade_file, now, runs>>

\* ------------------------------------------------------------ save_history
\* Line 65: open(TRADE_FILE, 'w') truncates the file.
SaveOpen(self) ==
  /\ pc[self] = "sh_open"
  /\ trade_file' = OpenedFile
  /\ Set(self, [loc[self] EXCEPT !.saved = TRUE])
  /\ Goto(self, "sh_dump")
  /\ UNCHANGED <<trade_history, now, runs>>

\* Line 66: json.dump and close.  With another thread inside save_history
\* the two dumps go to the same file and the content may be garbled.
SaveDump(self) ==
  /\ pc[self] = "sh_dump"
  /\ \E f \in {FileOf(trade_history)} \cup
              (IF \E t \in Threads \ {self} : pc[t] = "sh_dump"
                 THEN {GarbledFile} ELSE {}) :
       trade_file' = f
  /\ Goto(self, loc[self].ret)
  /\ UNCHANGED <<trade_history, loc, now, runs>>

\* ------------------------------------------------------------ check_trades
\* Lines 133-134 (daily_report: line 186).
CheckStart(self, serial) ==
  /\ self \in CheckThreads
  /\ CanStart(self, serial)
  /\ Set(self, [InitLoc EXCEPT !.i = 1, !.h0 = trade_history])
  /\ Goto(self, "ct_loop")
  /\ UNCHANGED <<trade_history, trade_file, now>>

\* Lines 136-137: the next trade of the list, visited when ACTIVE.
CheckLoop(self) ==
  /\ pc[self] = "ct_loop"
  /\ LET i == loc[self].i
     IN IF i > Len(trade_history)
          THEN Goto(self, "ct_end") /\ UNCHANGED loc
          ELSE IF IsActive(trade_history[i])
            THEN Goto(self, "ct_fetch") /\ UNCHANGED loc
            ELSE Set(self, [loc[self] EXCEPT !.i = i + 1]) /\ UNCHANGED pc
  /\ UNCHANGED <<trade_history, trade_file, now, runs>>

\* Lines 140-163: the price fetch and the win/loss logic, which stores the
\* outcome; an empty frame skips the trade, no new status leads to line 176.
CheckFetch(self, A) ==
  /\ pc[self] = "ct_fetch"
  /\ \E a \in A :
       LET l == loc[self]
           i == l.i
           trade == trade_history[i]
           df == fetch_data_safe(a)
           new_status == NewStatus(trade, df.close)
           seen == [l EXCEPT !.fetched = @ \cup {i}]
           eval == [seen EXCEPT !.current_price = df.close,
                                !.new_status = new_status]
       IN IF df.empty
            THEN /\ Set(self, [seen EXCEPT !.failed = @ \cup {i},
                                 !.i = SkipTrade(i, Len(trade_history))])
                 /\ Goto(self, "ct_loop")
                 /\ UNCHANGED trade_history
            ELSE IF new_status = "None"
              THEN /\ Set(self, eval)
                   /\ Goto(self, "ct_sleep")
                   /\ UNCHANGED trade_history
              ELSE /\ trade_history' =
                        [trade_history EXCEPT ![i].outcome = OutcomeOf(new_status)]
                   /\ Set(self, eval)
                   /\ Goto(self, "ct_resolve")
  /\ UNCHANGED <<trade_file, now, runs>>

\* Lines 165-170: the status and the pnl.
CheckResolve(self) ==
  /\ pc[self] = "ct_resolve"
  /\ LET l == loc[self]
         i == l.i
     IN /\ trade_history' =
             [trade_history EXCEPT
                ![i].status = l.new_status,
                ![i].pnl_percent = PnlPercent(trade_history[i], l.current_price)]
        /\ Set(self, [l EXCEPT !.trans = @ \cup {i}])
  /\ Goto(self, "ct_notify")
  /\ UNCHANGED <<trade_file, now, runs>>

\* Lines 172-174: the resolution message, then updated = True; an
\* exception of send_message is caught at line 178, past lines 174-176.
CheckNotify(self, Oks) ==
  /\ pc[self] = "ct_notify"
  /\ \E ok \in Oks :
       LET l == loc[self]
           i == l.i
           told == [l EXCEPT !.messages = @ + 1,
                             !.updated = UpdatedAfterSend(@, ok)]
       IN IF ok
            THEN /\ Set(self, [told EXCEPT !.sent = @ \cup {i}])
                 /\ Goto(self, "ct_sleep")
            ELSE /\ Set(self, [told EXCEPT !.unsent = @ \cup {i}, !.i = i + 1])
                 /\ Goto(self, "ct_loop")
  /\ UNCHANGED <<trade_history, trade_file, now, runs>>

\* Line 176: time.sleep(1), then the next trade.
CheckSleep(self) ==
  /\ pc[self] = "ct_sleep"
  /\ Set(self, [loc[self] EXCEPT !.i = @ + 1])
  /\ Goto(self, "ct_loop")
  /\ UNCHANGED <<trade_history, trade_file, now, runs>>

\* Line 181: if updated: save_history().
CheckEnd(self) ==
  /\ pc[self] = "ct_end"
  /\ LET after == IF self = "daily_report" THEN "dr_report" ELSE "ct_ret"
     IN IF ShouldSave(loc[self].updated)
          THEN /\ Set(self, [loc[self] EXCEPT !.ret = after])
               /\ Goto(self, "sh_open")
          ELSE /\ Goto(self, after)
               /\ UNCHANGED loc
  /\ UNCHANGED <<trade_history, trade_file, now, runs>>

\* ------------------------------------------------------------ daily_report
\* Lines 188-207: the summary of the last 24 hours and its message.
Report(self) ==
  /\ pc[self] = "dr_report"
  /\ Set(self, [loc[self] EXCEPT !.now = now,
                                 !.report = ReportOf(trade_history, now),
                                 !.messages = @ + 1])
  /\ Goto(self, "dr_ret")
  /\ UNCHANGED <<trade_history, trade_file, now, runs>>

\* The function returns; its locals are gone.
Return(self) ==
  /\ pc[self] \in {"gs_ret", "ct_ret", "dr_ret"}
  /\ Set(self, InitLoc)
  /\ Goto(self, "idle")
  /\ UNCHANGED <<trade_history, trade_file, now, runs>>

\* ------------------------------------------------------------ specifications
\* 1h frames of check_trades: only the close is read.
PriceFrames == Frames(Prices, {<<2, 1>>})
PriceAttempts == AttemptSeqs(PriceFrames)

\* The steps of a running function; A: what the price fetches may return,
\* Oks: whether send_message may succeed (TRUE) and fail (FALSE).
Step(self, A, Oks) ==
  \/ GenEval(self)
  \/ RecordAppend(self)
  \/ GenSend(self, Oks)
  \/ SaveOpen(self)
  \/ SaveDump(self)
  \/ CheckLoop(self)
  \/ CheckFetch(self, A)
  \/ CheckResolve(self)
  \/ CheckNotify(self, Oks)
  \/ CheckSleep(self)
  \/ CheckEnd(self)
  \/ Report(self)
  \/ Return(self)

\* The functions run one at a time.
Next ==
  \E self \in Threads :
    \/ GenStart(self, TRUE, MaxTrades, Attempts4h, Attempts1h, Dailies)
    \/ CheckStart(self, TRUE)
    \/ Step(self, PriceAttempts, BOOLEAN)

Spec == Init /\ [][Next]_vars

\* The threads interleave: the scheduler's pool and the startup threads
\* run the functions in parallel, without a lock.  The exchange and the
\* message service answer at once here: a bullish market at 121.
ConcFrames4h == {Frame(121, <<2, 1>>)}
ConcFrames1h == {Frame(106, <<2, 1>>)}
ConcPriceFrames == {Frame(106, <<2, 1>>), Frame(121, <<2, 1>>)}
ConcAttempts4h == Reliable(ConcFrames4h)
ConcAttempts1h == Reliable(ConcFrames1h)
ConcPriceAttempts == Reliable(ConcPriceFrames)

NextConc ==
  \E self \in Threads :
    \/ GenStart(self, FALSE, MaxTrades, ConcAttempts4h, ConcAttempts1h,
                Dailies)
    \/ CheckStart(self, FALSE)
    \/ Step(self, ConcPriceAttempts, {TRUE})

SpecConc == Init /\ [][NextConc]_vars

\* generate_and_send_signal alone, one call at a time, on every input.
NextSignal ==
  \E self \in SignalThreads :
    \/ GenStart(self, TRUE, MaxSignalTrades, AllAttempts4h, AllAttempts1h,
                AllDailies)
    \/ GenEval(self)
    \/ RecordAppend(self)
    \/ SaveOpen(self)
    \/ SaveDump(self)
    \/ GenSend(self, BOOLEAN)
    \/ Return(self)

SpecSignal == Init /\ [][NextSignal]_vars

\* daily_report alone, with a clock, on ledgers whose trades were created
\* 24h + 1s, 24h and 23h59m before the start.
Ages == {Day + 1, Day, Day - 60}
ReportStart == Day + 1

\* The record check_trades leaves of a trade resolved at price p.
Resolved(trade, p) ==
  [trade EXCEPT !.status = NewStatus(trade, p),
                !.outcome = OutcomeOf(NewStatus(trade, p)),
                !.pnl_percent = PnlPercent(trade, p)]

\* The record record_trade appended as number id, age seconds before the
\* start.
Aged(trade, id, age) ==
  [trade EXCEPT !.id = id, !.timestamp = isoformat(ReportStart - age)]

ReportTrades ==
  {BuyExample, SellExample, Resolved(BuyExample, 121),
   Resolved(SellExample, 121)}

\* Ledgers in the order of creation: the older trade first.
ReportLedgers ==
  UNION {{[i \in 1..n |-> Aged(tr[i], i, ag[i])] :
            tr \in [1..n -> ReportTrades],
            ag \in {a \in [1..n -> Ages] :
                      \A i \in 1..n : \A j \in i..n : a[i] >= a[j]}} :
         n \in 0..MaxReportTrades}

ReportPriceFrames == {Frame(106, <<2, 1>>), Frame(121, <<2, 1>>)}
ReportPriceAttempts == AttemptSeqs(ReportPriceFrames)

InitReport ==
  /\ trade_history \in ReportLedgers
  /\ trade_file = FileOf(trade_history)
  /\ pc = [t \in Threads |-> "idle"]
  /\ loc = [t \in Threads |-> InitLoc]
  /\ now = ReportStart
  /\ runs = [t \in Threads |-> 0]

\* A second passes.
Tick ==
  /\ now < ReportStart + MaxTicks
  /\ now' = now + 1
  /\ UNCHANGED <<trade_history, trade_file, pc, loc, runs>>

NextReport ==
  \/ Tick
  \/ \E self \in {"daily_report"} :
       \/ CheckStart(self, TRUE)
       \/ CheckLoop(self)
       \/ CheckFetch(self, ReportPriceAttempts)
       \/ CheckResolve(self)
       \/ CheckNotify(self, BOOLEAN)
       \/ CheckSleep(self)
       \/ CheckEnd(self)
       \/ SaveOpen(self)
       \/ SaveDump(self)
       \/ Report(self)
       \/ Return(self)

SpecReport == InitReport /\ [][NextReport]_vars

\* The check_trades job alone, pass after pass: the scheduler fires the
\* job again and again (line 302) and a running pass goes on running.
InitLive ==
  /\ InitReport
  /\ \A i \in 1..Len(trade_history) :
       trade_history[i].timestamp = isoformat(0)

StartLive == CheckStart("check_trades", TRUE)

StepLive ==
  \E self \in {"check_trades"} :
    \/ CheckLoop(self)
    \/ CheckFetch(self, PriceAttempts)
    \/ CheckResolve(self)
    \/ CheckNotify(self, BOOLEAN)
    \/ CheckSleep(self)
    \/ CheckEnd(self)
    \/ SaveOpen(self)
    \/ SaveDump(self)
    \/ Return(self)

NextLive == StartLive \/ StepLive

SpecLive ==
  InitLive /\ [][NextLive]_vars /\ WF_vars(StartLive) /\ WF_vars(StepLive)

\* ------------------------------------------------------------ properties
\* A check_trades pass (on either thread) has gone through the whole list
\* and through line 181.
PassEnded(t) == pc[t] \in {"ct_ret", "dr_report"}

\* The trade a pass has just evaluated against a fetched price.
Evaluated(t) == pc[t] \in {"ct_notify", "ct_sleep"}

NoActive(history) == \A i \in 1..Len(history) : history[i].status # "ACTIVE"

Buys(trade) == trade.signal = "STRONG BUY"

\* C1: with the functions run one at a time, a trade whose status is not
\* ACTIVE keeps its status, outcome and pnl_percent in every later step,
\* and a pass sends (or tries to send) a resolution message only for a
\* trade that was ACTIVE when that pass started.
C1_TerminalFinal ==
  [][\A i \in 1..Len(trade_history) :
       trade_history[i].status # "ACTIVE" =>
         /\ Len(trade_history') >= i
         /\ trade_history'[i].status = trade_history[i].status
         /\ trade_history'[i].outcome = trade_history[i].outcome
         /\ trade_history'[i].pnl_percent = trade_history[i].pnl_percent
         /\ \A t \in CheckThreads :
              i \in (loc'[t].sent \cup loc'[t].unsent)
                      \ (loc[t].sent \cup loc[t].unsent)
                => /\ i <= Len(loc[t].h0)
                   /\ loc[t].h0[i].status = "ACTIVE"]_vars

\* A pass has gone past a trade that was resolved before the pass started.
C1_Witness ==
  \E t \in CheckThreads :
    /\ pc[t] = "ct_end"
    /\ \E i \in 1..Len(loc[t].h0) :
         /\ loc[t].h0[i].status # "ACTIVE"
         /\ trade_history[i] = loc[t].h0[i]

Crosses(trade, p, level) == IF Buys(trade) THEN p >= level ELSE p <= level
CrossesStop(trade, p) == IF Buys(trade) THEN p <= trade.sl ELSE p >= trade.sl

\* C2: after a pass evaluated an ACTIVE trade at the fetched price p:
\* p beyond tp2 gives TP2_HIT/WIN whatever tp1 and sl are; TP1_HIT/WIN is
\* stored only with tp2 not crossed; SL_HIT/LOSS only with neither target
\* crossed; the trade stays ACTIVE only when nothing is crossed.
C2_ResolutionPriority ==
  \A t \in CheckThreads :
    Evaluated(t) =>
      LET tr == trade_history[loc[t].i]
          p == loc[t].current_price
      IN /\ Crosses(tr, p, tr.tp2) => tr.status = "TP2_HIT" /\ tr.outcome = "WIN"
         /\ tr.status = "TP1_HIT" =>
              /\ ~Crosses(tr, p, tr.tp2)
              /\ Crosses(tr, p, tr.tp1)
              /\ tr.outcome = "WIN"
         /\ tr.status = "SL_HIT" =>
              /\ ~Crosses(tr, p, tr.tp2)
              /\ ~Crosses(tr, p, tr.tp1)
              /\ CrossesStop(tr, p)
              /\ tr.outcome = "LOSS"
         /\ tr.status = "ACTIVE" =>
              /\ ~Crosses(tr, p, tr.tp2)
              /\ ~Crosses(tr, p, tr.tp1)
              /\ ~CrossesStop(tr, p)

\* A SELL evaluated at a price beyond both of its targets.
C2_Witness ==
  \E t \in CheckThreads :
    /\ Evaluated(t)
    /\ LET tr == trade_history[loc[t].i]
           p == loc[t].current_price
       IN /\ ~Buys(tr)
          /\ p <= tr.tp2
          /\ p <= tr.tp1
          /\ tr.status = "TP2_HIT"

\* C3: every trade of the ledger has its levels in order: a BUY has
\* sl < entry < tp1 < tp2, a SELL has tp2 < tp1 < entry < sl.
C3_LevelsOrdered ==
  \A i \in 1..Len(trade_history) :
    LET tr == trade_history[i]
    IN IF Buys(tr)
         THEN tr.sl < tr.entry /\ tr.entry < tr.tp1 /\ tr.tp1 < tr.tp2
         ELSE tr.tp2 < tr.tp1 /\ tr.tp1 < tr.entry /\ tr.entry < tr.sl

SameLevels(tr, ex) ==
  /\ tr.signal = ex.signal
  /\ tr.entry = ex.entry
  /\ tr.tp1 = ex.tp1
  /\ tr.tp2 = ex.tp2
  /\ tr.sl = ex.sl

\* C4: a trade resolved at the fetched price p stores
\* pnl_percent = (p - entry) / entry * 100, negated for a SELL, so a BUY
\* resolved above its entry and a SELL resolved below it have a positive
\* pnl_percent; the BUY 100/110/120/95 at 121 is TP2_HIT/WIN with +21 and
\* the SELL 100/90/80/105 at 106 is SL_HIT/LOSS with -6.
C4_PnlPercent ==
  \A t \in CheckThreads :
    Evaluated(t) =>
      LET tr == trade_history[loc[t].i]
          p == loc[t].current_price
          pnl == tr.pnl_percent
          move == (p - tr.entry) * 100
      IN /\ tr.status # "ACTIVE" =>
              /\ pnl.den > 0
              /\ pnl.num * tr.entry
                   = (IF Buys(tr) THEN move ELSE -move) * pnl.den
              /\ Buys(tr) /\ p > tr.entry => pnl.num > 0
              /\ ~Buys(tr) /\ p < tr.entry => pnl.num > 0
         /\ SameLevels(tr, BuyExample) /\ p = 121 =>
              /\ tr.status = "TP2_HIT"
              /\ tr.outcome = "WIN"
              /\ pnl.num = 21 * pnl.den
         /\ SameLevels(tr, SellExample) /\ p = 106 =>
              /\ tr.status = "SL_HIT"
              /\ tr.outcome = "LOSS"
              /\ pnl.num = -6 * pnl.den

\* The SELL 100/90/80/105 has been resolved at 106.
C4_Witness ==
  \E t \in CheckThreads :
    /\ pc[t] = "ct_notify"
    /\ SameLevels(trade_history[loc[t].i], SellExample)
    /\ loc[t].current_price = 106
    /\ trade_history[loc[t].i].pnl_percent.num < 0

\* generate_and_send_signal has decided (or returned).
Decided(self) ==
  pc[self] \in {"rt_append", "sh_open", "sh_dump", "gs_send", "gs_ret"}

\* An input of generate_and_send_signal is missing.
Missing(l) ==
  l.df_4h.empty \/ l.df_1h.empty \/ l.df_d.error \/ Len(l.df_d.rows) < 2

\* H + L + C of the second-to-last daily candle (3 * PP).
PrevDay(l) == l.df_d.rows[Len(l.df_d.rows) - 1]
Sum3(l) == PrevDay(l).high + PrevDay(l).low + PrevDay(l).close

\* C5: with every input present, the signal is STRONG BUY exactly when
\* sma9 > sma20 on the 4h and the 1h frame and price > PP, STRONG SELL
\* exactly when sma9 <= sma20 on both and price < PP, and WAIT otherwise;
\* a WAIT returns with nothing appended, saved or sent.
C5_SignalRule ==
  \A self \in SignalThreads :
    Decided(self) /\ ~Missing(loc[self]) =>
      LET l == loc[self]
          price == l.df_4h.close
          bull == l.df_4h.sma9 > l.df_4h.sma20 /\ l.df_1h.sma9 > l.df_1h.sma20
          bear == l.df_4h.sma9 <= l.df_4h.sma20 /\ l.df_1h.sma9 <= l.df_1h.sma20
      IN /\ l.signal \in {"STRONG BUY", "STRONG SELL", "WAIT (Neutral)"}
         /\ l.signal = "STRONG BUY" <=> (bull /\ 3 * price > Sum3(l))
         /\ l.signal = "STRONG SELL" <=> (bear /\ 3 * price < Sum3(l))
         /\ l.signal = "WAIT (Neutral)" =>
              /\ pc[self] = "gs_ret"
              /\ trade_history = l.h0
              /\ l.appended = 0
              /\ l.messages = 0
              /\ ~l.saved

\* A STRONG SELL decided on a tie of the 4h averages.
C5_Witness ==
  \E self \in SignalThreads :
    /\ pc[self] = "rt_append"
    /\ loc[self].signal = "STRONG SELL"
    /\ loc[self].df_4h.sma9 = loc[self].df_4h.sma20

\* C6: when generate_and_send_signal returns after a directional signal it
\* has appended exactly one trade: ACTIVE, outcome none, pnl_percent 0,
\* entry = the evaluated price, tp1 = R1, tp2 = R2, sl = min(BC, TC) for a
\* BUY, tp1 = S1, tp2 = S2, sl = max(BC, TC) for a SELL (levels of the
\* second-to-last daily candle); with a missing input it has appended
\* nothing and sent nothing.
C6_RecordedTrade ==
  \A self \in SignalThreads :
    pc[self] = "gs_ret" =>
      LET l == loc[self]
          n == Len(l.h0)
      IN IF Missing(l)
           THEN trade_history = l.h0 /\ l.appended = 0 /\ l.messages = 0
           ELSE l.signal \in {"STRONG BUY", "STRONG SELL"} =>
             /\ l.appended = 1
             /\ Len(trade_history) = n + 1
             /\ SubSeq(trade_history, 1, n) = l.h0
             /\ LET tr == trade_history[n + 1]
                    H == PrevDay(l).high
                    L == PrevDay(l).low
                    BC6 == 3 * (H + L)
                    TC6 == 4 * Sum3(l) - 3 * (H + L)
                IN /\ tr.status = "ACTIVE"
                   /\ tr.outcome = "None"
                   /\ tr.pnl_percent = ZeroPnl
                   /\ tr.symbol = self
                   /\ tr.signal = l.signal
                   /\ tr.entry = l.df_4h.close
                   /\ IF l.signal = "STRONG BUY"
                        THEN /\ 3 * tr.tp1 = 2 * Sum3(l) - 3 * L
                             /\ 3 * tr.tp2 = Sum3(l) + 3 * (H - L)
                             /\ 6 * tr.sl = Min(BC6, TC6)
                        ELSE /\ 3 * tr.tp1 = 2 * Sum3(l) - 3 * H
                             /\ 3 * tr.tp2 = Sum3(l) - 3 * (H - L)
                             /\ 6 * tr.sl = Max(BC6, TC6)

\* A SELL recorded from a candle whose TC lies above its BC.
C6_Witness ==
  \E self \in SignalThreads :
    /\ pc[self] = "gs_ret"
    /\ loc[self].signal = "STRONG SELL"
    /\ loc[self].appended = 1
    /\ PrevDay(loc[self]) = CandleC
    /\ trade_history[Len(trade_history)].sl = 110

\* C7: a pass calls save_history only if a trade that was ACTIVE when the
\* pass started is no longer ACTIVE; a pass over a ledger without ACTIVE
\* trade ends with no save, no message, no fetch and the ledger unchanged.
C7_SaveOnlyOnTransition ==
  \A t \in CheckThreads :
    LET l == loc[t]
    IN /\ l.saved =>
            \E i \in 1..Len(l.h0) :
              /\ l.h0[i].status = "ACTIVE"
              /\ trade_history[i].status # "ACTIVE"
       /\ PassEnded(t) /\ NoActive(l.h0) =>
            /\ ~l.saved
            /\ l.messages = 0
            /\ l.fetched = {}
            /\ trade_history = l.h0

\* A pass over a ledger of resolved trades only has ended.
C7_Witness ==
  \E t \in CheckThreads :
    /\ pc[t] = "ct_ret"
    /\ Len(loc[t].h0) = MaxTrades
    /\ NoActive(loc[t].h0)

\* C8: a trade whose price fetch came back empty is exactly as it was when
\* the pass started (ACTIVE, outcome none, pnl_percent 0) and no message is
\* sent for it; at the end of the list every trade that was ACTIVE at the
\* start of the pass has had its price fetched.
C8_FetchFailureSkips ==
  \A t \in CheckThreads :
    LET l == loc[t]
    IN /\ \A i \in l.failed :
            /\ trade_history[i] = l.h0[i]
            /\ trade_history[i].status = "ACTIVE"
            /\ trade_history[i].outcome = "None"
            /\ trade_history[i].pnl_percent = ZeroPnl
            /\ i \notin l.sent \cup l.unsent
       /\ pc[t] = "ct_end" =>
            \A j \in 1..Len(l.h0) : l.h0[j].status = "ACTIVE" => j \in l.fetched

\* After an empty fetch for one trade, a later trade was resolved in the
\* same pass.
C8_Witness ==
  \E t \in CheckThreads :
    /\ pc[t] = "ct_end"
    /\ \E i \in loc[t].failed :
         \E j \in loc[t].trans : i < j

\* C9: at the end of a pass, a transition whose resolution message failed
\* is in the file: save_history ran and the file holds the trade's status.
C9_UnsentTransitionSaved ==
  \A t \in CheckThreads :
    PassEnded(t) =>
      \A i \in loc[t].unsent :
        /\ loc[t].saved
        /\ trade_file.state = "written"
        /\ Len(trade_file.trades) >= i
        /\ trade_file.trades[i].status = trade_history[i].status

\* A thread is inside save_history with the file open, or between the two
\* writes (outcome, then status and pnl_percent) of a resolution.
Writing(t) == pc[t] \in {"sh_dump", "ct_resolve"}

\* C10: at no time are two threads inside a mutation of the ledger or
\* inside save_history.
C10_SingleWriter == Cardinality({t \in Threads : Writing(t)}) <= 1

\* C11: under every interleaving of the check_trades job and the pass of
\* daily_report, a trade is given a non-ACTIVE status by at most one pass
\* and at most one resolution message is sent for it.
C11_ResolvedOnce ==
  \A i \in 1..Len(trade_history) :
    /\ Cardinality({t \in CheckThreads : i \in loc[t].trans}) <= 1
    /\ Cardinality({t \in CheckThreads : i \in loc[t].sent}) <= 1

\* C12: under every interleaving of the generate_and_send_signal threads,
\* the record at position i of the ledger (1-based) has id i.
C12_SequentialIds ==
  \A i \in 1..Len(trade_history) : trade_history[i].id = i

\* The first attempt of a fetch that did not raise (0: none).
FirstOk(a) ==
  IF \E j \in 1..max_retries : a[j].ok
    THEN CHOOSE j \in 1..max_retries : a[j].ok /\ \A k \in 1..(j - 1) : ~a[k].ok
    ELSE 0

\* C13: fetch_data_safe makes at most 3 attempts, returns the frame of the
\* first attempt that succeeded and an empty frame when all 3 failed; and
\* once a fetch_data_safe call has failed 3 times, the caller makes no
\* further fetch attempt for that asset (generate_and_send_signal) or that
\* trade (check_trades) in the pass.
C13_BoundedFetch ==
  /\ \A a \in AllAttempts4h \cup PriceAttempts :
       /\ AttemptsUsed(a) <= 3
       /\ IF FirstOk(a) = 0
            THEN AttemptsUsed(a) = 3 /\ fetch_data_safe(a) = EmptyFrame
            ELSE AttemptsUsed(a) = FirstOk(a)
                   /\ fetch_data_safe(a) = a[FirstOk(a)].df
  /\ \A t \in Threads : loc[t].late = 0

\* Seconds between the creation of a trade and the time clock.
AgeAt(trade, clock) ==
  clock - (trade.timestamp.date * 86400 + trade.timestamp.time)

\* The trades of the 24-hour window ending at clock, by position.
Window(history, clock) ==
  {i \in 1..Len(history) : AgeAt(history[i], clock) <= 24 * 3600}

\* The pnl_percent of the window's trades among the first n, summed in
\* percent (the trades of SpecReport have an entry of 100, so each
\* pnl_percent is a whole number).
RECURSIVE NetPercent(_, _, _)
NetPercent(history, clock, n) ==
  IF n = 0 THEN 0
  ELSE NetPercent(history, clock, n - 1)
         + (IF n \in Window(history, clock)
              THEN history[n].pnl_percent.num \div history[n].pnl_percent.den
              ELSE 0)

\* C14: when daily_report has built its summary it has completed a whole
\* check_trades pass (every trade that was ACTIVE has had its price
\* fetched, every trade the pass resolved carries its new outcome), and
\* the summary covers exactly the trades created at most 24 hours before
\* the time read at line 188 (24h + 1s: out, 23h59m: in): their number,
\* the number of WIN, the number of LOSS and the sum of pnl_percent.
C14_DailyReport ==
  \A t \in CheckThreads :
    pc[t] = "dr_ret" =>
      LET l == loc[t]
          r == l.report
          w == Window(trade_history, l.now)
      IN /\ r.made
         /\ \A j \in 1..Len(l.h0) : l.h0[j].status = "ACTIVE" => j \in l.fetched
         /\ \A i \in l.trans :
              /\ trade_history[i].status # "ACTIVE"
              /\ trade_history[i].outcome \in {"WIN", "LOSS"}
         /\ \A i \in 1..Len(trade_history) :
              /\ AgeAt(trade_history[i], l.now) = 24 * 3600 + 1 => i \notin w
              /\ AgeAt(trade_history[i], l.now) = 23 * 3600 + 59 * 60 => i \in w
         /\ r.signals = Cardinality(w)
         /\ r.wins = Cardinality({i \in w : trade_history[i].outcome = "WIN"})
         /\ r.losses = Cardinality({i \in w : trade_history[i].outcome = "LOSS"})
         /\ r.net_pct.den > 0
         /\ r.net_pct.num
              = NetPercent(trade_history, l.now, Len(trade_history))
                  * r.net_pct.den

\* A report over a trade created 24h + 1s before and a trade created
\* 23h59m before that the forced pass resolved as a WIN: one signal, one
\* win, net +21 %.
C14_Witness ==
  /\ pc["daily_report"] = "dr_ret"
  /\ LET l == loc["daily_report"]
     IN /\ Len(trade_history) = 2
        /\ AgeAt(trade_history[1], l.now) = 24 * 3600 + 1
        /\ AgeAt(trade_history[2], l.now) = 23 * 3600 + 59 * 60
        /\ 2 \in l.trans
        /\ trade_history[2].outcome = "WIN"
        /\ l.report.signals = 1
        /\ l.report.wins = 1
        /\ l.report.losses = 0
        /\ l.report.net_pct.num = 21 * l.report.net_pct.den

\* The fields of a trade fixed at its creation.
Fixed(trade) ==
  <<trade.id, trade.symbol, trade.signal, trade.entry, trade.tp1, trade.tp2,
    trade.sl, trade.timestamp>>

\* The step is one of thread t.
Stepped(t) == pc'[t] # pc[t] \/ loc'[t] # loc[t]

\* C15: no step shortens the ledger or changes the id, symbol, signal,
\* entry, tp1, tp2, sl or timestamp of a trade; a step of a check_trades
\* pass keeps the length of the ledger; and the step that evaluates an
\* ACTIVE trade at a fetched price crossing none of tp2, tp1 and sl leaves
\* the ledger as it is, the trade ACTIVE with outcome none and
\* pnl_percent 0.
C15_Frame ==
  [][/\ Len(trade_history') >= Len(trade_history)
     /\ \A i \in 1..Len(trade_history) :
          Fixed(trade_history'[i]) = Fixed(trade_history[i])
     /\ \A t \in CheckThreads :
          Stepped(t) =>
            /\ Len(trade_history') = Len(trade_history)
            /\ pc[t] = "ct_fetch" /\ pc'[t] # "ct_loop" =>
                 LET i == loc[t].i
                     tr == trade_history[i]
                     p == loc'[t].current_price
                 IN ~Crosses(tr, p, tr.tp2) /\ ~Crosses(tr, p, tr.tp1)
                      /\ ~CrossesStop(tr, p) =>
                        /\ trade_history' = trade_history
                        /\ trade_history'[i].status = "ACTIVE"
                        /\ trade_history'[i].outcome = "None"
                        /\ trade_history'[i].pnl_percent = ZeroPnl]_vars

\* A pass has evaluated the BUY 100/110/120/95 at 106, which crosses
\* nothing, and the trade is as it was when the pass started.
C15_Witness ==
  \E t \in CheckThreads :
    /\ pc[t] = "ct_sleep"
    /\ loc[t].current_price = 106
    /\ loc[t].new_status = "None"
    /\ SameLevels(trade_history[loc[t].i], BuyExample)
    /\ trade_history[loc[t].i] = loc[t].h0[loc[t].i]
    /\ trade_history[loc[t].i].status = "ACTIVE"

\* C16: the levels generate_and_send_signal got from calculate_cpr_levels
\* are those of the second-to-last daily candle (H, L, C):
\* PP = (H+L+C)/3, BC = (H+L)/2, TC = PP + (PP - BC), R1 = 2*PP - L,
\* S1 = 2*PP - H, R2 = PP + (H-L), S2 = PP - (H-L), with TC - PP = PP - BC
\* when H >= L; they are the same whatever the last candle is; and with
\* fewer than 2 candles there are no levels.
C16_CprLevels ==
  \A self \in SignalThreads :
    pc[self] # "idle" /\ ~loc[self].df_d.error =>
      LET rows == loc[self].df_d.rows
          cpr == loc[self].cpr
      IN IF Len(rows) < 2
           THEN cpr.none
           ELSE LET H == rows[Len(rows) - 1].high
                    L == rows[Len(rows) - 1].low
                    C == rows[Len(rows) - 1].close
                IN /\ ~cpr.none
                   /\ 3 * cpr.PP = H + L + C
                   /\ 2 * cpr.BC = H + L
                   /\ cpr.TC = cpr.PP + (cpr.PP - cpr.BC)
                   /\ cpr.R1 = 2 * cpr.PP - L
                   /\ cpr.S1 = 2 * cpr.PP - H
                   /\ cpr.R2 = cpr.PP + (H - L)
                   /\ cpr.S2 = cpr.PP - (H - L)
                   /\ H >= L => cpr.TC - cpr.PP = cpr.PP - cpr.BC
                   /\ \A c \in {CandleA, CandleB, CandleC, CandleFlat,
                                CandleForming} :
                        calculate_cpr_levels([rows EXCEPT ![Len(rows)] = c]) = cpr

\* The levels of a three-day series whose second-to-last candle is
\* (120, 60, 60): PP 80, BC 90, TC 70.
C16_Witness ==
  \E self \in SignalThreads :
    /\ pc[self] = "gs_eval"
    /\ Len(loc[self].df_d.rows) = 3
    /\ loc[self].df_d.rows[2] = CandleB
    /\ loc[self].cpr.PP = 80
    /\ loc[self].cpr.BC = 90
    /\ loc[self].cpr.TC = 70

\* A step that fetches the price of trade i gets a price, and the price
\* crosses tp2, tp1 or sl of the trade.
FetchCrosses(i) ==
  \A t \in CheckThreads :
    pc[t] = "ct_fetch" /\ loc[t].i = i /\ pc'[t] # "ct_fetch" =>
      /\ pc'[t] # "ct_loop"
      /\ LET tr == trade_history[i]
             p == loc'[t].current_price
         IN Crosses(tr, p, tr.tp2) \/ Crosses(tr, p, tr.tp1)
              \/ CrossesStop(tr, p)

\* C17: with the check_trades job run again and again, if from some point
\* on every fetch for a trade returns a price that crosses tp2, tp1 or sl,
\* the trade does not stay ACTIVE for ever, however many fetches failed or
\* crossed nothing before.
C17_Resolution ==
  \A i \in 1..MaxReportTrades :
    <>[][FetchCrosses(i)]_vars =>
      [](Len(trade_history) >= i =>
           <>(Len(trade_history) >= i /\ trade_history[i].status # "ACTIVE"))

\* A pass has ended in which the fetch for the first trade failed (it is
\* still ACTIVE and waits for the next pass) and the second trade was
\* resolved.
C17_Witness ==
  /\ pc["check_trades"] = "ct_ret"
  /\ 1 \in loc["check_trades"].failed
  /\ trade_history[1].status = "ACTIVE"
  /\ 2 \in loc["check_trades"].trans
  /\ trade_history[2].status # "ACTIVE"

\* A pass is between its two writes for trade i: the outcome is stored
\* (lines 149-163), the status and pnl_percent not yet (lines 166-170).
Resolving(i) == \E t \in CheckThreads : pc[t] = "ct_resolve" /\ loc[t].i = i

\* C18: with the functions run one at a time, whatever fetch or message
\* failed, every trade outside the two writes of its resolution is ACTIVE
\* with outcome none and pnl_percent 0, or TP1_HIT or TP2_HIT with outcome
\* WIN, or SL_HIT with outcome LOSS.
C18_StatusOutcome ==
  \A i \in 1..Len(trade_history) :
    LET tr == trade_history[i]
    IN Resolving(i)
         \/ /\ tr.status = "ACTIVE"
            /\ tr.outcome = "None"
            /\ tr.pnl_percent = ZeroPnl
         \/ /\ tr.status \in {"TP1_HIT", "TP2_HIT"}
            /\ tr.outcome = "WIN"
         \/ /\ tr.status = "SL_HIT"
            /\ tr.outcome = "LOSS"

\* A pass has ended in which the fetch for one trade failed and the
\* message for another, resolved as a loss, failed.
C18_Witness ==
  \E t \in CheckThreads :
    /\ pc[t] = "ct_ret"
    /\ loc[t].failed # {}
    /\ \E i \in loc[t].unsent :
         /\ trade_history[i].status = "SL_HIT"
         /\ trade_history[i].outcome = "LOSS"

\* C19: every trade stored as a WIN has pnl_percent > 0 and every trade
\* stored as a LOSS has pnl_percent < 0 (outside the two writes of its
\* resolution).
C19_OutcomeSign ==
  \A i \in 1..Len(trade_history) :
    LET tr == trade_history[i]
    IN Resolving(i)
         \/ /\ tr.pnl_percent.den > 0
            /\ tr.outcome = "WIN" => tr.pnl_percent.num > 0
            /\ tr.outcome = "LOSS" => tr.pnl_percent.num < 0

\* C20: every trade generate_and_send_signal builds or has appended has
\* its stop on the adverse side of the entry: a BUY has
\* sl = min(BC, TC) <= PP < entry, a SELL has sl = max(BC, TC) >= PP > entry.
C20_StopSide ==
  /\ \A i \in 1..Len(trade_history) :
       LET tr == trade_history[i]
       IN IF Buys(tr) THEN tr.sl < tr.entry ELSE tr.sl > tr.entry
  /\ \A self \in SignalThreads :
       Decided(self) /\ IsDirectional(loc[self].signal) =>
         LET tr == loc[self].t
             cpr == loc[self].cpr
         IN IF Buys(tr)
              THEN /\ tr.sl = Min(cpr.BC, cpr.TC)
                   /\ tr.sl <= cpr.PP
                   /\ cpr.PP < tr.entry
                   /\ tr.sl < tr.entry
              ELSE /\ tr.sl = Max(cpr.BC, cpr.TC)
                   /\ tr.sl >= cpr.PP
                   /\ cpr.PP > tr.entry
                   /\ tr.sl > tr.entry

\* A BUY at 90 recorded from the candle (120, 60, 60), whose BC is 90:
\* the stop is TC = 70.
C20_Witness ==
  \E self \in SignalThreads :
    /\ pc[self] = "gs_ret"
    /\ loc[self].appended = 1
    /\ loc[self].signal = "STRONG BUY"
    /\ loc[self].cpr.BC = 90
    /\ trade_history[Len(trade_history)].entry = 90
    /\ trade_history[Len(trade_history)].sl = 70

====
